---- MODULE Spec2Model ----
(***************************************************************************)
(* The request pipeline of python_service: agent_query -> dispatch ->      *)
(* compiled StateGraph (rewrite, retrieve, grade, widen_filter,            *)
(* increment_retry, websearch, generate).  One behaviour is one request.   *)
(*                                                                         *)
(* Texts are sequences of one-character strings so that strip(), lower()   *)
(* and the substring test of the grade node are computed, not assumed.     *)
(* Relevance scores are integers in hundredths (0.25 is 25).               *)
(***************************************************************************)
EXTENDS Integers, Sequences, FiniteSets, TLC

VARIABLES
    pc,                  \* node about to run, or idle / END / failed / done
    on_non_patch,        \* what the StateGraph build does with a node return that is not a dict
    serp_api_key,        \* settings.serp_api_key is a non-empty string
    category,            \* req.category
    profile,             \* getattr(req.payload, "profile", None): "none" or "model"
    query,               \* state["query"]
    rewritten_query,     \* state["rewritten_query"]
    has_rewritten,       \* the key rewritten_query is present in the state
    retry_count,         \* state["retry_count"]
    filter_level,        \* state["filter_level"]
    grade_decision,      \* state["grade_decision"], "unset" while the key is absent
    documents,           \* state["documents"]
    web_documents,       \* state["web_documents"]
    search_quality,      \* state["search_quality"], "unset" while absent
    avg_relevance_score, \* state["avg_relevance_score"] as a reduced fraction <<num, den>>
    answer,              \* state["answer"]
    sources,             \* state["sources"]
    error,               \* exception that ended the request, "none" otherwise
    http_status,         \* status agent_query answers with, 0 while running
    steps,               \* node executions so far
    last_node,           \* node executed by the latest step
    verdict,             \* value returned by the latest grade_node call
    grade_llm,           \* what the LLM did inside the latest grade_node call
    stage_a,             \* documents the latest grade_node call looked at passed the threshold check
    websearch_runs,      \* executions of the websearch node
    index_missing,       \* the category's vector index cannot be loaded
    retrieval_trace,     \* state["retrieval_trace"], empty while the key is absent
    port,                \* what the LLM, retriever or search did inside the latest node
    web_trace,           \* retrieval_trace of the patch the latest websearch_node call returned
    only_empty,          \* every retriever call so far returned no documents
    scenario1,           \* so far the retriever and the grading LLM behaved as in scenario 1
    merge_input,         \* the list the latest merge_node call deduplicated
    node_runs,           \* executions of each node in this request
    last_retrieve,       \* <<retry_count, filter_level>> of the latest retrieve execution
    sessions,            \* the state dict of each request in flight in the process
    in_llm,              \* where each request's thread is inside get_global_llm
    _GLOBAL_LLM,         \* base._GLOBAL_LLM: 0 for None, else the instance it holds
    llm_instances,       \* LLM client objects constructed in the process so far
    retriever_instances, \* retriever objects constructed so far, per category
    store_path,          \* the retriever code path that scores a search hit
    store_value,         \* what the vector store returned for the hit, in 1/50
    has_avg,             \* the state has the key avg_relevance_score
    messages,            \* the message list of the latest llm.invoke call of rewrite_node
    history,             \* the conversation history the request carries
    retriever_input,     \* what enhanced_retrieve_node handed to retriever.invoke
    filters,             \* the constraints the jobs retriever applied to that input
    jobs_profile         \* the profile dict of a jobs request as the retrieve node gets it

vars == <<pc, on_non_patch, serp_api_key, category, profile, query, rewritten_query,
          has_rewritten, retry_count, filter_level, grade_decision, documents,
          web_documents, search_quality, avg_relevance_score, answer, sources,
          error, http_status, steps, last_node, verdict, grade_llm, stage_a,
          websearch_runs, index_missing, retrieval_trace, port, web_trace,
          only_empty, scenario1, merge_input, node_runs, last_retrieve,
          sessions, in_llm, _GLOBAL_LLM, llm_instances, retriever_instances,
          store_path, store_value, has_avg, messages, history, retriever_input,
          filters, jobs_profile>>

----------------------------------------------------------------------------
(* Bounds of the model *)

MaxDocs == 2            \* longest document list a retriever call returns

----------------------------------------------------------------------------
(* Program constants *)

MAX_FILTER_LEVEL == 3
MAX_RETRIES == 2
RecursionLimit == 50
SourcesShown == 5

Registered == {"jobs", "welfare"}

Categories == {"jobs", "welfare", "legal", "news", "scam_defense"}

\* category, profile of a schema-valid AgentRequest: JobsPayload.profile is
\* required, LegalPayload.profile is optional, the other payloads have none.
Requests ==
    {<<"jobs", "model">>, <<"welfare", "none">>, <<"legal", "none">>,
     <<"legal", "model">>, <<"news", "none">>, <<"scam_defense", "none">>}

min_relevance_threshold ==
    [c \in Categories |->
        CASE c = "jobs" -> 40
          [] c = "welfare" -> 25
          [] c = "legal" -> 60
          [] c = "news" -> 50
          [] OTHER -> 40]

----------------------------------------------------------------------------
(* Texts *)

Whitespace == {" ", "\n"}

lower(c) ==
    CASE c = "Y" -> "y"
      [] c = "E" -> "e"
      [] c = "S" -> "s"
      [] c = "N" -> "n"
      [] c = "O" -> "o"
      [] OTHER -> c

Lowered(s) == [i \in 1..Len(s) |-> lower(s[i])]

RECURSIVE lstrip(_)
lstrip(s) == IF s # <<>> /\ Head(s) \in Whitespace THEN lstrip(Tail(s)) ELSE s

RECURSIVE rstrip(_)
rstrip(s) ==
    IF s # <<>> /\ s[Len(s)] \in Whitespace THEN rstrip(SubSeq(s, 1, Len(s) - 1)) ELSE s

strip(s) == rstrip(lstrip(s))

Contains(s, sub) ==
    \E i \in 1..(Len(s) - Len(sub) + 1) : SubSeq(s, i, i + Len(sub) - 1) = sub

Queries == {<<>>, <<"q">>}

RewriteCompletions == {<<"r", "w">>, <<" ", "r", "w", "\n">>, <<" ">>}

GradeCompletions ==
    {<<"y", "e", "s">>, <<"Y", "E", "S">>, <<" ", "Y", "e", "s", "\n">>,
     <<"n", "o">>, <<"N", "o">>, <<>>, <<"y", "e">>, <<"o", "y", "e", "s", "!">>}

AnswerCompletions == {<<"a">>, <<" ", "a", " ">>}

Apology == <<"s", "o", "r", "r", "y">>

\* outcome of one LLM use: building the client fails, the call fails, or a completion
LLMOutcomes(completions) ==
    {[kind |-> "construct_error", content |-> <<>>],
     [kind |-> "invoke_error", content |-> <<>>]}
    \cup {[kind |-> "ok", content |-> c] : c \in completions}

NotCalled == [kind |-> "not_called", content |-> <<>>]

----------------------------------------------------------------------------
(* Documents *)

ScoreValues == {24, 25, 70}

Docs ==
    {[has_score |-> FALSE, relevance_score |-> 0, origin |-> "none"]}
    \cup {[has_score |-> TRUE, relevance_score |-> s, origin |-> "none"] : s \in ScoreValues}

DocLists == UNION {[1..n -> Docs] : n \in 0..MaxDocs}

WebDoc == [has_score |-> FALSE, relevance_score |-> 0, origin |-> "web_search"]

\* doc.metadata.get("relevance_score", 0)
ScoreOf(d) == IF d.has_score THEN d.relevance_score ELSE 0

RECURSIVE SumScores(_)
SumScores(docs) == IF docs = <<>> THEN 0 ELSE ScoreOf(Head(docs)) + SumScores(Tail(docs))

RECURSIVE GCD(_, _)
GCD(a, b) == IF b = 0 THEN a ELSE GCD(b, a % b)

Fraction(n, d) == LET g == GCD(n, d) IN IF g = 0 THEN <<0, 1>> ELSE <<n \div g, d \div g>>

Min(a, b) == IF a < b THEN a ELSE b

----------------------------------------------------------------------------
(* Node functions *)

\* state.get("rewritten_query") or state.get("query", "")
QueryUsed(has_rw, rw, q) == IF has_rw /\ rw # <<>> THEN rw ELSE q

\* the keys of the state dict dispatch hands to graph.invoke
DispatchStateKeys == {"category", "query", "retry_count", "filter_level", "profile"}

\* state.get("history") or [] for a request carrying h
state_history(h) == IF "history" \in DispatchStateKeys THEN h ELSE <<>>

HistoryTurns == 6

\* rewrite_node's message list that feeds the previous rewrite back to the LLM
rewrite_messages_feedback(h, q) ==
    <<[role |-> "system", content |-> <<"rewrite_system_prompt">>]>>
    \o SelectSeq(SubSeq(h, IF Len(h) > HistoryTurns THEN Len(h) - HistoryTurns + 1 ELSE 1,
                        Len(h)),
                 LAMBDA turn : turn.role \in {"user", "assistant"} /\ turn.content # <<>>)
    \o <<[role |-> "user", content |-> IF rewritten_query # <<>> THEN rewritten_query ELSE q]>>

\* the system prompt, the last 6 turns of the history in the state that have a
\* role and a content, then the question
rewrite_messages(h, q) ==
    <<[role |-> "system", content |-> <<"rewrite_system_prompt">>]>>
    \o SelectSeq(SubSeq(h, IF Len(h) > HistoryTurns THEN Len(h) - HistoryTurns + 1 ELSE 1,
                        Len(h)),
                 LAMBDA turn : turn.role \in {"user", "assistant"} /\ turn.content # <<>>)
    \o <<[role |-> "user", content |-> q]>>

\* rewrite_node that gives up the query when the LLM fails
rewrite_node_empty_on_failure(q, o) ==
    IF q = <<>> THEN <<>>
    ELSE IF o.kind = "ok" THEN strip(o.content)
    ELSE <<>>

rewrite_node(q, o) ==
    IF q = <<>> THEN <<>>
    ELSE IF o.kind = "ok" THEN strip(o.content)
    ELSE q

\* assess_search_quality with exclusive boundaries
assess_search_quality_exclusive(docs, min_threshold) ==
    IF docs = <<>> THEN [quality |-> "low", avg_score |-> <<0, 1>>, count |-> 0]
    ELSE LET total == SumScores(docs)
             count == Len(docs)
         IN [quality |->
                IF count > 5 /\ total > 70 * count THEN "high"
                ELSE IF count > 3 /\ total > min_threshold * count THEN "medium"
                ELSE "low",
             avg_score |-> Fraction(total, count),
             count |-> count]

assess_search_quality(docs, min_threshold) ==
    IF docs = <<>> THEN [quality |-> "low", avg_score |-> <<0, 1>>, count |-> 0]
    ELSE LET total == SumScores(docs)
             count == Len(docs)
         IN [quality |->
                IF count >= 5 /\ total >= 70 * count THEN "high"
                ELSE IF count >= 3 /\ total >= min_threshold * count THEN "medium"
                ELSE "low",
             avg_score |-> Fraction(total, count),
             count |-> count]

\* the two early returns of grade_node: no documents, or none at the threshold
StageAPasses(docs, threshold) ==
    /\ docs # <<>>
    /\ \E i \in 1..Len(docs) : ScoreOf(docs[i]) >= threshold

\* the comparison without lower(): "YES" is not recognised
ParseDecision_case_sensitive(content) ==
    IF Contains(strip(content), <<"y", "e", "s">>) THEN "yes" ELSE "no"

\* "yes" in response.content.strip().lower()
ParseDecision(content) ==
    IF Contains(Lowered(strip(content)), <<"y", "e", "s">>) THEN "yes" ELSE "no"

\* grade_node without the threshold check: only an empty list is rejected early
grade_node_no_threshold(docs, threshold, o) ==
    IF docs = <<>> THEN [result |-> "no", llm |-> NotCalled]
    ELSE IF o.kind = "ok" THEN [result |-> ParseDecision(o.content), llm |-> o]
    ELSE [result |-> "yes", llm |-> o]

\* grade_node whose except branch rejects instead of accepting
grade_node_reject_on_failure(docs, threshold, o) ==
    IF ~StageAPasses(docs, threshold) THEN [result |-> "no", llm |-> NotCalled]
    ELSE IF o.kind = "ok" THEN [result |-> ParseDecision(o.content), llm |-> o]
    ELSE [result |-> "no", llm |-> o]

\* result: the string grade_node returns ("raise" if an exception left it);
\* llm: what the LLM did, NotCalled when the node returned before using it
grade_node(docs, threshold, o) ==
    IF ~StageAPasses(docs, threshold) THEN [result |-> "no", llm |-> NotCalled]
    ELSE IF o.kind = "ok" THEN [result |-> ParseDecision(o.content), llm |-> o]
    ELSE [result |-> "yes", llm |-> o]

\* filter_widen_node that never widens
filter_widen_node_stuck(current_level) == current_level

filter_widen_node(current_level) ==
    LET next_level == current_level + 1
    IN IF next_level >= 3 THEN 3 ELSE next_level

\* increment_retry that leaves the widening ladder one rung up
increment_retry_reset_to_one(rc) == [retry_count |-> rc + 1, filter_level |-> 1]

increment_retry(rc) == [retry_count |-> rc + 1, filter_level |-> 0]

\* route_after_grade that ends the run when every strategy is exhausted
route_after_grade_ends_exhausted(decision, rc, fl) ==
    IF decision = "yes" THEN "generate"
    ELSE IF fl < MAX_FILTER_LEVEL THEN "widen_filter"
    ELSE IF rc < MAX_RETRIES THEN "increment_retry"
    ELSE "END"

\* route_after_grade with an inclusive retry test: one rewrite too many
route_after_grade_retry_inclusive(decision, rc, fl) ==
    IF decision = "yes" THEN "generate"
    ELSE IF fl < MAX_FILTER_LEVEL THEN "widen_filter"
    ELSE IF rc <= MAX_RETRIES THEN "increment_retry"
    ELSE "websearch"

\* route_after_grade with an inclusive filter test: widening never gives up
route_after_grade_widen_inclusive(decision, rc, fl) ==
    IF decision = "yes" THEN "generate"
    ELSE IF fl <= MAX_FILTER_LEVEL THEN "widen_filter"
    ELSE IF rc < MAX_RETRIES THEN "increment_retry"
    ELSE "websearch"

\* route_after_grade that branches on the quality bucket: a retrieval of low
\* quality goes straight to the web search
route_after_grade_quality_driven(decision, rc, fl) ==
    IF decision = "yes" THEN "generate"
    ELSE IF search_quality = "low" /\ documents # <<>> THEN "websearch"
    ELSE IF fl < MAX_FILTER_LEVEL THEN "widen_filter"
    ELSE IF rc < MAX_RETRIES THEN "increment_retry"
    ELSE "websearch"

\* decision is state.get("grade_decision", "no")
route_after_grade(decision, rc, fl) ==
    IF decision = "yes" THEN "generate"
    ELSE IF fl < MAX_FILTER_LEVEL THEN "widen_filter"
    ELSE IF rc < MAX_RETRIES THEN "increment_retry"
    ELSE "websearch"

\* what the retriever does when RETRIEVE uses it: the index cannot be loaded
\* (get_retriever or the lazily built store raises), the search raises, or a list
RetrieverOutcomes(missing) ==
    IF missing THEN {[kind |-> "load_error", docs |-> <<>>]}
    ELSE {[kind |-> "invoke_error", docs |-> <<>>]}
         \cup {[kind |-> "ok", docs |-> d] : d \in DocLists}

\* enhanced_retrieve_node that refuses an empty query instead of returning no documents
enhanced_retrieve_node_needs_query(q, r, min_threshold) ==
    IF q = <<>>
    THEN [documents |-> <<>>, search_quality |-> "low", writes_avg |-> FALSE,
          avg_relevance_score |-> <<0, 1>>, port |-> "not_called", raised |-> TRUE]
    ELSE IF r.kind # "ok"
    THEN [documents |-> <<>>, search_quality |-> "low", writes_avg |-> FALSE,
          avg_relevance_score |-> <<0, 1>>, port |-> r.kind, raised |-> FALSE]
    ELSE [documents |-> r.docs,
          search_quality |-> assess_search_quality(r.docs, min_threshold).quality,
          writes_avg |-> TRUE,
          avg_relevance_score |-> assess_search_quality(r.docs, min_threshold).avg_score,
          port |-> "ok", raised |-> FALSE]

\* enhanced_retrieve_node without its try/except: a retriever failure leaves the node
enhanced_retrieve_node_propagates(q, r, min_threshold) ==
    IF q = <<>>
    THEN [documents |-> <<>>, search_quality |-> "low", writes_avg |-> FALSE,
          avg_relevance_score |-> <<0, 1>>, port |-> "not_called", raised |-> FALSE]
    ELSE IF r.kind # "ok"
    THEN [documents |-> <<>>, search_quality |-> "low", writes_avg |-> FALSE,
          avg_relevance_score |-> <<0, 1>>, port |-> r.kind, raised |-> TRUE]
    ELSE [documents |-> r.docs,
          search_quality |-> assess_search_quality(r.docs, min_threshold).quality,
          writes_avg |-> TRUE,
          avg_relevance_score |-> assess_search_quality(r.docs, min_threshold).avg_score,
          port |-> "ok", raised |-> FALSE]

\* the patch of enhanced_retrieve_node; writes_avg: the patch has avg_relevance_score
enhanced_retrieve_node(q, r, min_threshold) ==
    IF q = <<>>
    THEN [documents |-> <<>>, search_quality |-> "low", writes_avg |-> FALSE,
          avg_relevance_score |-> <<0, 1>>, port |-> "not_called", raised |-> FALSE]
    ELSE IF r.kind # "ok"
    THEN [documents |-> <<>>, search_quality |-> "low", writes_avg |-> FALSE,
          avg_relevance_score |-> <<0, 1>>, port |-> r.kind, raised |-> FALSE]
    ELSE [documents |-> r.docs,
          search_quality |-> assess_search_quality(r.docs, min_threshold).quality,
          writes_avg |-> TRUE,
          avg_relevance_score |-> assess_search_quality(r.docs, min_threshold).avg_score,
          port |-> "ok", raised |-> FALSE]

\* websearch_node whose except branch forgets the trace entry
websearch_node_silent_error(q, has_key, w, trace) ==
    IF q = <<>> \/ ~has_key
    THEN [web_documents |-> <<>>,
          retrieval_trace |->
              Append(trace, [type |-> "web_search_skipped",
                             reason |-> IF q = <<>> THEN "empty_query"
                                        ELSE "missing_serp_api_key"]),
          port |-> IF q = <<>> THEN "empty_query" ELSE "missing_serp_api_key"]
    ELSE IF w = "ok"
    THEN [web_documents |-> <<WebDoc>>,
          retrieval_trace |-> Append(trace, [type |-> "web_search", reason |-> ""]),
          port |-> "ok"]
    ELSE [web_documents |-> <<>>, retrieval_trace |-> trace, port |-> "raise"]

\* the patch of websearch_node; w is what SerpAPIWrapper does when it is run
websearch_node(q, has_key, w, trace) ==
    IF q = <<>> \/ ~has_key
    THEN [web_documents |-> <<>>,
          retrieval_trace |->
              Append(trace, [type |-> "web_search_skipped",
                             reason |-> IF q = <<>> THEN "empty_query"
                                        ELSE "missing_serp_api_key"]),
          port |-> IF q = <<>> THEN "empty_query" ELSE "missing_serp_api_key"]
    ELSE IF w = "ok"
    THEN [web_documents |-> <<WebDoc>>,
          retrieval_trace |-> Append(trace, [type |-> "web_search", reason |-> ""]),
          port |-> "ok"]
    ELSE [web_documents |-> <<>>,
          retrieval_trace |-> Append(trace, [type |-> "web_search_error", reason |-> ""]),
          port |-> "raise"]

----------------------------------------------------------------------------
(* Orchestration *)

\* the keys of AgentState: the only keys the StateGraph keeps from a patch
AgentStateKeys ==
    {"category", "query", "profile", "rewritten_query", "should_stop", "error",
     "retry_count", "filter_level", "grade_decision", "search_quality",
     "avg_relevance_score", "documents", "web_documents", "answer", "sources"}

MergeKey(key, old, new) == IF key \in AgentStateKeys THEN new ELSE old

Nodes == {"rewrite", "retrieve", "grade", "widen_filter", "increment_retry",
          "websearch", "generate"}

\* graph.invoke(state, config={"recursion_limit": 50}): a run that has used up
\* the limit and still has a node to execute is aborted
StepOutcome(next, executed) ==
    IF next # "END" /\ executed >= RecursionLimit
    THEN [pc |-> "failed", error |-> "GraphRecursionError"]
    ELSE [pc |-> next, error |-> "none"]

Goto(next, name) ==
    /\ steps' = steps + 1
    /\ node_runs' = [node_runs EXCEPT ![name] = @ + 1]
    /\ last_node' = name
    /\ pc' = StepOutcome(next, steps + 1).pc
    /\ error' = StepOutcome(next, steps + 1).error

cfgVars == <<on_non_patch, serp_api_key, index_missing>>
reqVars == <<category, profile, query>>
gradeGhost == <<verdict, grade_llm, stage_a>>
outVars == <<answer, sources, http_status>>
retrVars == <<documents, search_quality, avg_relevance_score>>
traceVars == <<retrieval_trace, web_trace>>
scenVars == <<only_empty, scenario1>>
runVars == <<node_runs, last_retrieve>>
procVars == <<sessions, in_llm, _GLOBAL_LLM, llm_instances, retriever_instances>>
storeVars == <<store_path, store_value>>

\* the process and the store as the single-request specifications leave them
OneRequestProcess ==
    /\ sessions = <<>>
    /\ in_llm = <<>>
    /\ _GLOBAL_LLM = 0
    /\ llm_instances = 0
    /\ retriever_instances = [c \in Registered |-> 0]

NoStoreHit == store_path = "none" /\ store_value = 0

NoLocation == [none |-> TRUE, text |-> <<>>]

NoFilterBuilt ==
    /\ retriever_input = [called |-> FALSE]
    /\ filters = {}
    /\ jobs_profile = [age |-> 0, gender |-> "other", location |-> NoLocation]

filterVars == <<history, retriever_input, filters, jobs_profile>>

Init ==
    /\ pc = "idle"
    /\ on_non_patch \in {"raise", "skip"}
    /\ serp_api_key \in BOOLEAN
    /\ category = ""
    /\ profile = "none"
    /\ query = <<>>
    /\ rewritten_query = <<>>
    /\ has_rewritten = FALSE
    /\ retry_count = 0
    /\ filter_level = 0
    /\ grade_decision = "unset"
    /\ documents = <<>>
    /\ web_documents = <<>>
    /\ search_quality = "unset"
    /\ avg_relevance_score = <<0, 1>>
    /\ answer = <<>>
    /\ sources = <<>>
    /\ error = "none"
    /\ http_status = 0
    /\ steps = 0
    /\ last_node = "none"
    /\ verdict = "none"
    /\ grade_llm = NotCalled
    /\ stage_a = FALSE
    /\ websearch_runs = 0
    /\ index_missing \in BOOLEAN
    /\ retrieval_trace = <<>>
    /\ port = "none"
    /\ web_trace = <<>>
    /\ only_empty = TRUE
    /\ scenario1 = TRUE
    /\ merge_input = <<>>
    /\ node_runs = [n \in Nodes |-> 0]
    /\ last_retrieve = <<-1, -1>>
    /\ has_avg = FALSE
    /\ messages = <<>>
    /\ OneRequestProcess
    /\ NoStoreHit
    /\ history = <<>>
    /\ NoFilterBuilt

\* the part of dispatch before graph.invoke
DispatchEntry(c, p) ==
    IF c \notin Registered THEN [pc |-> "failed", error |-> "ValueError"]
    ELSE IF p # "none" THEN [pc |-> "failed", error |-> "NameError"]
    ELSE [pc |-> "rewrite", error |-> "none"]

Dispatch ==
    /\ pc = "idle"
    /\ \E r \in Requests, q \in Queries :
        /\ category' = r[1]
        /\ profile' = r[2]
        /\ query' = q
        /\ pc' = DispatchEntry(r[1], r[2]).pc
        /\ error' = DispatchEntry(r[1], r[2]).error
    /\ retry_count' = 0
    /\ filter_level' = 0
    /\ UNCHANGED <<cfgVars, rewritten_query, has_rewritten, grade_decision, retrVars,
                   web_documents, outVars, steps, last_node, gradeGhost, websearch_runs,
                   traceVars, port, scenVars, merge_input, runVars,
                   procVars, storeVars,
                   messages, has_avg, filterVars>>

Rewrite ==
    /\ pc = "rewrite"
    /\ \E o \in LLMOutcomes(RewriteCompletions) :
        /\ rewritten_query' = rewrite_node(query, o)
        /\ port' = IF query = <<>> THEN "not_called" ELSE o.kind
        /\ messages' = IF query = <<>> \/ o.kind = "construct_error" THEN messages
                       ELSE rewrite_messages(state_history(history), query)
    /\ has_rewritten' = TRUE
    /\ Goto("retrieve", "rewrite")
    /\ UNCHANGED <<cfgVars, reqVars, retry_count, filter_level, grade_decision, retrVars,
                   web_documents, outVars, gradeGhost, websearch_runs, traceVars,
                   scenVars, merge_input,
                   last_retrieve,
                   procVars, storeVars,
                   has_avg, filterVars>>

Retrieve ==
    /\ pc = "retrieve"
    /\ \E r \in RetrieverOutcomes(index_missing) :
        LET patch == enhanced_retrieve_node(
                         QueryUsed(has_rewritten, rewritten_query, query), r,
                         min_relevance_threshold[category])
        IN /\ documents' = patch.documents
           /\ search_quality' = patch.search_quality
           /\ avg_relevance_score' =
                  IF patch.writes_avg THEN patch.avg_relevance_score
                  ELSE avg_relevance_score
           /\ has_avg' = (has_avg \/ patch.writes_avg)
           /\ port' = patch.port
           /\ only_empty' = (only_empty /\ patch.port \in {"ok", "not_called"}
                                        /\ patch.documents = <<>>)
           /\ scenario1' =
                  /\ scenario1
                  /\ patch.port = "ok"
                  /\ (filter_level < 3 => patch.documents = <<>>)
                  /\ (filter_level = 3 =>
                         /\ patch.documents # <<>>
                         /\ \A i \in 1..Len(patch.documents) :
                                ScoreOf(patch.documents[i])
                                    >= min_relevance_threshold[category])
           /\ steps' = steps + 1
           /\ last_node' = "retrieve"
           /\ node_runs' = [node_runs EXCEPT !["retrieve"] = @ + 1]
           /\ last_retrieve' = <<retry_count, filter_level>>
           /\ IF patch.raised
              THEN pc' = "failed" /\ error' = "NodeError"
              ELSE /\ pc' = StepOutcome("grade", steps + 1).pc
                   /\ error' = StepOutcome("grade", steps + 1).error
    /\ UNCHANGED <<cfgVars, reqVars, rewritten_query, has_rewritten, retry_count,
                   filter_level, grade_decision, web_documents, outVars, gradeGhost,
                   websearch_runs, traceVars, merge_input,
                   procVars, storeVars,
                   messages, filterVars>>

\* grade_node returns a bare string, never a dict with grade_decision, so the
\* StateGraph has no patch to merge: the build either refuses the return value
\* (the run is aborted) or writes nothing and evaluates route_after_grade.
Grade ==
    /\ pc = "grade"
    /\ \E o \in LLMOutcomes(GradeCompletions) :
        LET g == grade_node(documents, min_relevance_threshold[category], o)
        IN /\ verdict' = g.result
           /\ grade_llm' = g.llm
           /\ stage_a' = StageAPasses(documents, min_relevance_threshold[category])
           /\ scenario1' = (scenario1 /\ (g.llm # NotCalled => g.llm.kind = "ok"
                                                             /\ g.result = "yes"))
           /\ steps' = steps + 1
           /\ last_node' = "grade"
           /\ node_runs' = [node_runs EXCEPT !["grade"] = @ + 1]
           /\ IF g.result = "raise"
              THEN pc' = "failed" /\ error' = "NodeError"
              ELSE IF on_non_patch = "raise"
              THEN pc' = "failed" /\ error' = "InvalidUpdateError"
              ELSE LET next == route_after_grade(
                                   IF grade_decision = "unset" THEN "no" ELSE grade_decision,
                                   retry_count, filter_level)
                   IN /\ pc' = StepOutcome(next, steps + 1).pc
                      /\ error' = StepOutcome(next, steps + 1).error
    /\ port' = "none"
    /\ UNCHANGED <<cfgVars, reqVars, rewritten_query, has_rewritten, retry_count,
                   filter_level, grade_decision, retrVars, web_documents, outVars,
                   websearch_runs, traceVars, only_empty, merge_input,
                   last_retrieve,
                   procVars, storeVars,
                   messages, has_avg, filterVars>>

WidenFilter ==
    /\ pc = "widen_filter"
    /\ filter_level' = filter_widen_node(filter_level)
    /\ port' = "none"
    /\ Goto("retrieve", "widen_filter")
    /\ UNCHANGED <<cfgVars, reqVars, rewritten_query, has_rewritten, retry_count,
                   grade_decision, retrVars, web_documents, outVars, gradeGhost,
                   websearch_runs, traceVars, scenVars, merge_input,
                   last_retrieve,
                   procVars, storeVars,
                   messages, has_avg, filterVars>>

IncrementRetry ==
    /\ pc = "increment_retry"
    /\ retry_count' = increment_retry(retry_count).retry_count
    /\ filter_level' = increment_retry(retry_count).filter_level
    /\ port' = "none"
    /\ Goto("rewrite", "increment_retry")
    /\ UNCHANGED <<cfgVars, reqVars, rewritten_query, has_rewritten, grade_decision,
                   retrVars, web_documents, outVars, gradeGhost, websearch_runs,
                   traceVars, scenVars, merge_input,
                   last_retrieve,
                   procVars, storeVars,
                   messages, has_avg, filterVars>>

\* the websearch step that merges its result into the internal documents
Websearch_merging ==
    /\ pc = "websearch"
    /\ \E w \in {"ok", "raise"} :
        LET patch == websearch_node(QueryUsed(has_rewritten, rewritten_query, query),
                                    serp_api_key, w, retrieval_trace)
        IN /\ web_documents' = patch.web_documents
           /\ documents' = documents \o patch.web_documents
           /\ retrieval_trace' =
                  MergeKey("retrieval_trace", retrieval_trace, patch.retrieval_trace)
           /\ web_trace' = patch.retrieval_trace
           /\ port' = patch.port
    /\ websearch_runs' = websearch_runs + 1
    /\ Goto("generate", "websearch")
    /\ UNCHANGED <<cfgVars, reqVars, rewritten_query, has_rewritten, retry_count,
                   filter_level, grade_decision, search_quality, avg_relevance_score,
                   outVars, gradeGhost, scenVars, merge_input, last_retrieve,
                   procVars, storeVars, messages, has_avg, filterVars>>

Websearch ==
    /\ pc = "websearch"
    /\ \E w \in {"ok", "raise"} :
        LET patch == websearch_node(QueryUsed(has_rewritten, rewritten_query, query),
                                    serp_api_key, w, retrieval_trace)
        IN /\ web_documents' = patch.web_documents
           /\ retrieval_trace' =
                  MergeKey("retrieval_trace", retrieval_trace, patch.retrieval_trace)
           /\ web_trace' = patch.retrieval_trace
           /\ port' = patch.port
    /\ websearch_runs' = websearch_runs + 1
    /\ Goto("generate", "websearch")
    /\ UNCHANGED <<cfgVars, reqVars, rewritten_query, has_rewritten, retry_count,
                   filter_level, grade_decision, retrVars, outVars, gradeGhost,
                   scenVars, merge_input,
                   last_retrieve,
                   procVars, storeVars,
                   messages, has_avg, filterVars>>

\* generate_node that still cites the documents when the LLM failed
generate_node_cites_on_failure(all_docs, o) ==
    IF o.kind = "ok"
    THEN [answer |-> strip(o.content),
          sources |-> SubSeq(all_docs, 1, Min(SourcesShown, Len(all_docs)))]
    ELSE [answer |-> Apology,
          sources |-> SubSeq(all_docs, 1, Min(SourcesShown, Len(all_docs)))]

\* generate_node that cites every document it rendered
generate_node_cites_all(all_docs, o) ==
    IF o.kind = "ok"
    THEN [answer |-> strip(o.content), sources |-> all_docs]
    ELSE [answer |-> Apology, sources |-> <<>>]

generate_node(all_docs, o) ==
    IF o.kind = "ok"
    THEN [answer |-> strip(o.content),
          sources |-> SubSeq(all_docs, 1, Min(SourcesShown, Len(all_docs)))]
    ELSE [answer |-> Apology, sources |-> <<>>]

Generate ==
    /\ pc = "generate"
    /\ \E o \in LLMOutcomes(AnswerCompletions) :
        /\ answer' = generate_node(documents \o web_documents, o).answer
        /\ sources' = generate_node(documents \o web_documents, o).sources
        /\ port' = o.kind
    /\ Goto("END", "generate")
    /\ UNCHANGED <<cfgVars, reqVars, rewritten_query, has_rewritten, retry_count,
                   filter_level, grade_decision, retrVars, web_documents, http_status,
                   gradeGhost, websearch_runs, traceVars, scenVars, merge_input,
                   last_retrieve,
                   procVars, storeVars,
                   messages, has_avg, filterVars>>

\* dispatch builds the AgentResponse from the final state
DispatchReturn ==
    /\ pc = "END"
    /\ pc' = "done"
    /\ http_status' = 200
    /\ UNCHANGED <<cfgVars, reqVars, rewritten_query, has_rewritten, retry_count,
                   filter_level, grade_decision, retrVars, web_documents, answer, sources,
                   error, steps, last_node, gradeGhost, websearch_runs, traceVars, port,
                   scenVars, merge_input, runVars,
                   procVars, storeVars,
                   messages, has_avg, filterVars>>

\* an exception leaves dispatch: agent_query answers 400 for a ValueError
\* (dispatch re-raises every failure of graph.invoke as one) and 500 otherwise
DispatchRaise ==
    /\ pc = "failed"
    /\ pc' = "done"
    /\ http_status' = IF error = "NameError" THEN 500 ELSE 400
    /\ UNCHANGED <<cfgVars, reqVars, rewritten_query, has_rewritten, retry_count,
                   filter_level, grade_decision, retrVars, web_documents, answer, sources,
                   error, steps, last_node, gradeGhost, websearch_runs, traceVars, port,
                   scenVars, merge_input, runVars,
                   procVars, storeVars,
                   messages, has_avg, filterVars>>

Next ==
    \/ Dispatch
    \/ Rewrite
    \/ Retrieve
    \/ Grade
    \/ WidenFilter
    \/ IncrementRetry
    \/ Websearch
    \/ Generate
    \/ DispatchReturn
    \/ DispatchRaise

Spec == Init /\ [][Next]_vars

\* a request being served is never left half way: the interpreter keeps running
FairSpec == Spec /\ WF_vars(Next)

----------------------------------------------------------------------------
(* Merge node: built by make_merge_node, but build_graph never adds it, so it
   is exercised on its own, on every pair of bounded document lists *)

MaxMergeDocs == 2       \* longest list of each of the two inputs of merge_node
FingerprintLen == 100

RECURSIVE Rep(_, _)
Rep(c, n) == IF n = 0 THEN <<>> ELSE <<c>> \o Rep(c, n - 1)

\* documents as merge_node sees them: content and metadata
MergeDocs ==
    {[page_content |-> Rep("a", FingerprintLen) \o <<"x">>, metadata |-> "m1"],
     [page_content |-> Rep("a", FingerprintLen) \o <<"y">>, metadata |-> "m2"],
     [page_content |-> Rep("a", FingerprintLen - 1) \o <<" ", "z">>, metadata |-> "m1"],
     [page_content |-> Rep("a", FingerprintLen - 1), metadata |-> "m2"],
     [page_content |-> <<"b">>, metadata |-> "m1"],
     [page_content |-> <<" ", "b">>, metadata |-> "m2"]}

MergeDocLists == UNION {[1..n -> MergeDocs] : n \in 0..MaxMergeDocs}

\* doc.page_content[:100].strip()
Fingerprint(doc) ==
    strip(SubSeq(doc.page_content, 1, Min(FingerprintLen, Len(doc.page_content))))

\* the loop of _deduplicate_docs from position i on
RECURSIVE DedupLoop(_, _, _, _)
DedupLoop(docs, i, seen, unique) ==
    IF i > Len(docs) THEN unique
    ELSE IF Fingerprint(docs[i]) \notin seen
    THEN DedupLoop(docs, i + 1, seen \cup {Fingerprint(docs[i])}, Append(unique, docs[i]))
    ELSE DedupLoop(docs, i + 1, seen, unique)

\* _deduplicate_docs that compares a document with the one before it only
_deduplicate_docs_adjacent(docs) ==
    LET keep == {i \in 1..Len(docs) :
                    i = 1 \/ Fingerprint(docs[i]) # Fingerprint(docs[i - 1])}
    IN [k \in 1..Cardinality(keep) |->
           docs[CHOOSE i \in keep : Cardinality({j \in keep : j <= i}) = k]]

_deduplicate_docs(docs) == IF docs = <<>> THEN <<>> ELSE DedupLoop(docs, 1, {}, <<>>)

\* merge_node that puts the web documents first
merge_node_web_first(retrieved_docs, web_docs) ==
    [documents |-> _deduplicate_docs(web_docs \o retrieved_docs)]

merge_node(retrieved_docs, web_docs) ==
    [documents |-> _deduplicate_docs(retrieved_docs \o web_docs)]

MergeInit ==
    /\ pc = "merge"
    /\ documents \in MergeDocLists
    /\ web_documents \in MergeDocLists
    /\ on_non_patch = "raise"
    /\ serp_api_key = TRUE
    /\ index_missing = FALSE
    /\ category = "welfare"
    /\ profile = "none"
    /\ query = <<"q">>
    /\ rewritten_query = <<"q">>
    /\ has_rewritten = TRUE
    /\ retry_count = 0
    /\ filter_level = 0
    /\ grade_decision = "unset"
    /\ search_quality = "unset"
    /\ avg_relevance_score = <<0, 1>>
    /\ answer = <<>>
    /\ sources = <<>>
    /\ error = "none"
    /\ http_status = 0
    /\ steps = 0
    /\ last_node = "none"
    /\ verdict = "none"
    /\ grade_llm = NotCalled
    /\ stage_a = FALSE
    /\ websearch_runs = 0
    /\ retrieval_trace = <<>>
    /\ port = "none"
    /\ web_trace = <<>>
    /\ only_empty = TRUE
    /\ scenario1 = TRUE
    /\ merge_input = <<>>
    /\ node_runs = [n \in Nodes |-> 0]
    /\ last_retrieve = <<-1, -1>>
    /\ has_avg = FALSE
    /\ messages = <<>>
    /\ OneRequestProcess
    /\ NoStoreHit
    /\ history = <<>>
    /\ NoFilterBuilt

\* the node applied to the state, and once more to the state it left
MergeNode ==
    /\ pc \in {"merge", "merged"}
    /\ documents' = merge_node(documents, web_documents).documents
    /\ merge_input' = documents \o web_documents
    /\ pc' = (IF pc = "merge" THEN "merged" ELSE "merged_twice")
    /\ last_node' = "merge"
    /\ UNCHANGED <<cfgVars, reqVars, rewritten_query, has_rewritten, retry_count,
                   filter_level, grade_decision, search_quality, avg_relevance_score,
                   web_documents, outVars, error, steps, gradeGhost, websearch_runs,
                   traceVars, port, scenVars, runVars,
                   procVars, storeVars,
                   messages, has_avg, filterVars>>

MergeNext == MergeNode

MergeSpec == MergeInit /\ [][MergeNext]_vars

----------------------------------------------------------------------------
(* assess_search_quality on result sets large enough for the "high" bucket *)

MaxQualityDocs == 5     \* longest result set handed to assess_search_quality

QualityScores == {24, 25, 69, 70, 71}

QualityDocs ==
    {[has_score |-> FALSE, relevance_score |-> 0, origin |-> "none"]}
    \cup {[has_score |-> TRUE, relevance_score |-> x, origin |-> "none"] : x \in QualityScores}

QualityDocLists == UNION {[1..n -> QualityDocs] : n \in 0..MaxQualityDocs}

QualityInit ==
    /\ pc = "assess"
    /\ documents \in QualityDocLists
    /\ category \in Registered
    /\ web_documents = <<>>
    /\ on_non_patch = "raise"
    /\ serp_api_key = TRUE
    /\ index_missing = FALSE
    /\ profile = "none"
    /\ query = <<"q">>
    /\ rewritten_query = <<"q">>
    /\ has_rewritten = TRUE
    /\ retry_count = 0
    /\ filter_level = 0
    /\ grade_decision = "unset"
    /\ search_quality = "unset"
    /\ avg_relevance_score = <<0, 1>>
    /\ answer = <<>>
    /\ sources = <<>>
    /\ error = "none"
    /\ http_status = 0
    /\ steps = 0
    /\ last_node = "none"
    /\ verdict = "none"
    /\ grade_llm = NotCalled
    /\ stage_a = FALSE
    /\ websearch_runs = 0
    /\ retrieval_trace = <<>>
    /\ port = "none"
    /\ web_trace = <<>>
    /\ only_empty = TRUE
    /\ scenario1 = TRUE
    /\ merge_input = <<>>
    /\ node_runs = [n \in Nodes |-> 0]
    /\ last_retrieve = <<-1, -1>>
    /\ has_avg = FALSE
    /\ messages = <<>>
    /\ OneRequestProcess
    /\ NoStoreHit
    /\ history = <<>>
    /\ NoFilterBuilt

\* the call of assess_search_quality on the retrieved documents and what
\* enhanced_retrieve_node returns from it
AssessQuality ==
    /\ pc = "assess"
    /\ search_quality' =
           assess_search_quality(documents, min_relevance_threshold[category]).quality
    /\ avg_relevance_score' =
           assess_search_quality(documents, min_relevance_threshold[category]).avg_score
    /\ pc' = "assessed"
    /\ UNCHANGED <<cfgVars, reqVars, rewritten_query, has_rewritten, retry_count,
                   filter_level, grade_decision, documents, web_documents, outVars,
                   error, steps, last_node, gradeGhost, websearch_runs, traceVars,
                   port, scenVars, merge_input, runVars,
                   procVars, storeVars,
                   messages, has_avg, filterVars>>

QualityNext == AssessQuality

QualitySpec == QualityInit /\ [][QualityNext]_vars

----------------------------------------------------------------------------
(* The score a retriever stores for a search hit *)

\* the single-request state outside a request, for the specifications that
\* exercise one function or the whole process
AtRest ==
    /\ on_non_patch \in {"raise", "skip"}
    /\ serp_api_key = TRUE
    /\ index_missing = FALSE
    /\ category = "welfare"
    /\ profile = "none"
    /\ query = <<"q">>
    /\ rewritten_query = <<>>
    /\ has_rewritten = FALSE
    /\ retry_count = 0
    /\ filter_level = 0
    /\ grade_decision = "unset"
    /\ documents = <<>>
    /\ web_documents = <<>>
    /\ search_quality = "unset"
    /\ avg_relevance_score = <<0, 1>>
    /\ answer = <<>>
    /\ sources = <<>>
    /\ error = "none"
    /\ http_status = 0
    /\ steps = 0
    /\ last_node = "none"
    /\ verdict = "none"
    /\ grade_llm = NotCalled
    /\ stage_a = FALSE
    /\ websearch_runs = 0
    /\ retrieval_trace = <<>>
    /\ port = "none"
    /\ web_trace = <<>>
    /\ only_empty = TRUE
    /\ scenario1 = TRUE
    /\ merge_input = <<>>
    /\ node_runs = [n \in Nodes |-> 0]
    /\ last_retrieve = <<-1, -1>>
    /\ has_avg = FALSE
    /\ messages = <<>>

MaxStoreValue == 125    \* largest distance or score the store returns, in 1/50 (2.5)

\* the places where a retriever writes relevance_score
StorePaths == {"job", "welfare", "welfare_fallback", "legal", "scam"}

\* relevance_score in hundredths for a store value v/50: the job retriever and
\* the welfare retriever's query path store max(0.0, 1.0 - distance / 2.0), the
\* others store the value the store returned
relevance_score(path, value) ==
    IF path \in {"job", "welfare"}
    THEN (IF 100 - value > 0 THEN 100 - value ELSE 0)
    ELSE 2 * value

ScoreInit ==
    /\ pc = "search"
    /\ store_path \in StorePaths
    /\ store_value \in 0..MaxStoreValue
    /\ AtRest
    /\ OneRequestProcess
    /\ history = <<>>
    /\ NoFilterBuilt

\* the retriever turns one hit of the store into a Document
ScoreHit ==
    /\ pc = "search"
    /\ documents' = <<[has_score |-> TRUE,
                       relevance_score |-> relevance_score(store_path, store_value),
                       origin |-> store_path]>>
    /\ pc' = "scored"
    /\ UNCHANGED <<cfgVars, reqVars, rewritten_query, has_rewritten, retry_count,
                   filter_level, grade_decision, search_quality, avg_relevance_score,
                   web_documents, outVars, error, steps, last_node, gradeGhost,
                   websearch_runs, traceVars, port, scenVars, merge_input, runVars,
                   procVars, storeVars,
                   messages, has_avg, filterVars>>

ScoreNext == ScoreHit

ScoreSpec == ScoreInit /\ [][ScoreNext]_vars

----------------------------------------------------------------------------
(* Two requests served at the same time by one process: agent_query is a
   plain def, so each request runs dispatch in its own worker thread on the
   shared GRAPHS and HOOKS *)

RequestIds == {1, 2}

ConcQuery == <<"q">>

ConcLLMOutcomes ==
    {[kind |-> "invoke_error", content |-> <<>>],
     [kind |-> "ok", content |-> <<"y", "e", "s">>],
     [kind |-> "ok", content |-> <<"n", "o">>]}

ConcRetrieverOutcomes ==
    {[kind |-> "ok", docs |-> <<>>],
     [kind |-> "ok",
      docs |-> <<[has_score |-> TRUE, relevance_score |-> 70, origin |-> "none"]>>]}

\* the state dict dispatch builds for a request before graph.invoke
InitialSession ==
    [pc |-> "rewrite", filter_level |-> 0, retry_count |-> 0, rewritten_query |-> <<>>,
     documents |-> <<>>, web_documents |-> <<>>, answer |-> <<>>]

\* the state of request i after its next node, from the state handed to the
\* node: lib is what the StateGraph does with the grade node's string return,
\* o, r and w are what the LLM, the retriever and the web search do
SessionAfter(s, lib, o, r, w) ==
    CASE s.pc = "rewrite" ->
            [s EXCEPT !.rewritten_query = rewrite_node(ConcQuery, o), !.pc = "retrieve"]
      [] s.pc = "retrieve" ->
            [s EXCEPT !.documents =
                          enhanced_retrieve_node(
                              QueryUsed(TRUE, s.rewritten_query, ConcQuery), r,
                              min_relevance_threshold["welfare"]).documents,
                      !.pc = "grade"]
      [] s.pc = "grade" ->
            [s EXCEPT !.pc = IF lib = "raise" THEN "failed"
                             ELSE route_after_grade("no", s.retry_count, s.filter_level)]
      [] s.pc = "widen_filter" ->
            [s EXCEPT !.filter_level = filter_widen_node(s.filter_level), !.pc = "retrieve"]
      [] s.pc = "increment_retry" ->
            [s EXCEPT !.retry_count = increment_retry(s.retry_count).retry_count,
                      !.filter_level = increment_retry(s.retry_count).filter_level,
                      !.pc = "rewrite"]
      [] s.pc = "websearch" ->
            [s EXCEPT !.web_documents =
                          websearch_node(QueryUsed(TRUE, s.rewritten_query, ConcQuery),
                                         TRUE, w, <<>>).web_documents,
                      !.pc = "generate"]
      [] s.pc = "generate" ->
            [s EXCEPT !.answer = generate_node(s.documents \o s.web_documents, o).answer,
                      !.pc = "END"]

\* one state dict for the whole process instead of one per request
NodeState_shared(i) == sessions[1]

\* the state graph.invoke hands to the nodes of request i: the dict built in
\* that request's own dispatch call
NodeState(i) == sessions[i]

ConcInit ==
    /\ pc = "serving"
    /\ sessions = [i \in RequestIds |-> InitialSession]
    /\ in_llm = [i \in RequestIds |-> "no"]
    /\ _GLOBAL_LLM = 0
    /\ llm_instances = 0
    /\ retriever_instances = [c \in Registered |-> 0]
    /\ AtRest
    /\ NoStoreHit
    /\ history = <<>>
    /\ NoFilterBuilt

singleVars ==
    <<pc, cfgVars, reqVars, rewritten_query, has_rewritten, retry_count, filter_level,
      grade_decision, retrVars, web_documents, outVars, error, steps, last_node,
      gradeGhost, websearch_runs, traceVars, port, scenVars, merge_input, runVars,
      storeVars, has_avg, messages, filterVars>>

\* get_global_llm, first half: the test `_GLOBAL_LLM is None`
LlmCheck(i) ==
    /\ sessions[i].pc \in {"rewrite", "generate"}
    /\ in_llm[i] = "no"
    /\ in_llm' = [in_llm EXCEPT ![i] = IF _GLOBAL_LLM = 0 THEN "saw_none" ELSE "ready"]
    /\ UNCHANGED <<singleVars, sessions, _GLOBAL_LLM, llm_instances, retriever_instances>>

\* get_global_llm, second half: the import, SimpleLLM(...) and the assignment
LlmCreate(i) ==
    /\ in_llm[i] = "saw_none"
    /\ llm_instances' = llm_instances + 1
    /\ _GLOBAL_LLM' = llm_instances + 1
    /\ in_llm' = [in_llm EXCEPT ![i] = "ready"]
    /\ UNCHANGED <<singleVars, sessions, retriever_instances>>

\* the rest of the node request i is at; retrieve builds a retriever first
NodeOf(i) ==
    /\ sessions[i].pc \in Nodes
    /\ (sessions[i].pc \in {"rewrite", "generate"} => in_llm[i] = "ready")
    /\ \E o \in ConcLLMOutcomes, r \in ConcRetrieverOutcomes, w \in {"ok", "raise"} :
           sessions' = [sessions EXCEPT
                            ![i] = SessionAfter(NodeState(i), on_non_patch, o, r, w)]
    /\ retriever_instances' =
           [retriever_instances EXCEPT
                !["welfare"] = IF sessions[i].pc = "retrieve" THEN @ + 1 ELSE @]
    /\ in_llm' = [in_llm EXCEPT ![i] = "no"]
    /\ UNCHANGED <<singleVars, _GLOBAL_LLM, llm_instances>>

ConcNext ==
    \E i \in RequestIds :
        \/ LlmCheck(i)
        \/ LlmCreate(i)
        \/ NodeOf(i)

ConcSpec == ConcInit /\ [][ConcNext]_vars

----------------------------------------------------------------------------
(* A request that carries conversation history, up to the rewrite *)

MaxHistory == 7    \* turns in the history of the request

Turns == {[role |-> "user", content |-> <<"u">>],
          [role |-> "assistant", content |-> <<"a">>]}

Histories == UNION {[1..n -> Turns] : n \in 0..MaxHistory}

HistoryInit ==
    /\ pc = "idle"
    /\ history \in Histories
    /\ AtRest
    /\ OneRequestProcess
    /\ NoStoreHit
    /\ NoFilterBuilt

HistoryNext == Dispatch \/ Rewrite

HistorySpec == HistoryInit /\ [][HistoryNext]_vars

----------------------------------------------------------------------------
(* The end of a request whose retrievals were all rejected: websearch,
   generate and the response, on result sets longer than the sources shown.
   The run so far: a jobs request without profile, every rewrite answered,
   every retrieval before the last one empty, the last one returning documents
   below the category's threshold, the grade's string dropped by the graph. *)

MaxAnswerDocs == 5      \* longest list the last retrieval returned

\* documents as generate_node sees them: two share their first 100 characters
AnswerDocs ==
    {[has_score |-> TRUE, relevance_score |-> 24, origin |-> "none", page_content |-> c] :
        c \in {Rep("a", FingerprintLen) \o <<"x">>,
               Rep("a", FingerprintLen) \o <<"y">>,
               <<"b">>}}

AnswerDocLists == UNION {[1..n -> AnswerDocs] : n \in 0..MaxAnswerDocs}

AnswerInit ==
    /\ pc = "websearch"
    /\ on_non_patch = "skip"
    /\ serp_api_key \in BOOLEAN
    /\ index_missing = FALSE
    /\ category = "jobs"
    /\ profile = "none"
    /\ query = <<"q">>
    /\ rewritten_query = <<"r", "w">>
    /\ has_rewritten = TRUE
    /\ retry_count = MAX_RETRIES
    /\ filter_level = MAX_FILTER_LEVEL
    /\ grade_decision = "unset"
    /\ documents \in AnswerDocLists
    /\ web_documents = <<>>
    /\ search_quality =
           assess_search_quality(documents, min_relevance_threshold["jobs"]).quality
    /\ avg_relevance_score =
           assess_search_quality(documents, min_relevance_threshold["jobs"]).avg_score
    /\ answer = <<>>
    /\ sources = <<>>
    /\ error = "none"
    /\ http_status = 0
    /\ node_runs = [n \in Nodes |->
                       CASE n = "rewrite" -> MAX_RETRIES + 1
                         [] n \in {"retrieve", "grade"} ->
                                (MAX_RETRIES + 1) * (MAX_FILTER_LEVEL + 1)
                         [] n = "widen_filter" -> (MAX_RETRIES + 1) * MAX_FILTER_LEVEL
                         [] n = "increment_retry" -> MAX_RETRIES
                         [] OTHER -> 0]
    /\ steps = (MAX_RETRIES + 1) * (2 * (MAX_FILTER_LEVEL + 1) + MAX_FILTER_LEVEL + 1)
               + MAX_RETRIES
    /\ last_node = "grade"
    /\ verdict = "no"
    /\ grade_llm = NotCalled
    /\ stage_a = FALSE
    /\ websearch_runs = 0
    /\ retrieval_trace = <<>>
    /\ port = "none"
    /\ web_trace = <<>>
    /\ only_empty = (documents = <<>>)
    /\ scenario1 = FALSE
    /\ merge_input = <<>>
    /\ last_retrieve = <<MAX_RETRIES, MAX_FILTER_LEVEL>>
    /\ has_avg = TRUE
    /\ messages = rewrite_messages(<<>>, <<"q">>)
    /\ OneRequestProcess
    /\ NoStoreHit
    /\ history = <<>>
    /\ NoFilterBuilt

AnswerNext == Websearch \/ Generate \/ DispatchReturn

AnswerSpec == AnswerInit /\ [][AnswerNext]_vars

----------------------------------------------------------------------------
(* The filter enhanced_retrieve_node and the jobs retriever build from a
   profile at each filter level.  A location is None or a text. *)

\* str.split(): the maximal runs of characters that are not whitespace
RECURSIVE split(_)
split(text) ==
    LET t == lstrip(text)
        n == IF \E i \in 1..Len(t) : t[i] \in Whitespace
             THEN (CHOOSE i \in 1..Len(t) :
                      /\ t[i] \in Whitespace
                      /\ \A j \in 1..(i - 1) : t[j] \notin Whitespace) - 1
             ELSE Len(t)
    IN IF t = <<>> THEN <<>>
       ELSE <<SubSeq(t, 1, n)>> \o split(SubSeq(t, n + 1, Len(t)))

\* re.sub(r"[chars]+", " ", text)
RECURSIVE sub_runs(_, _)
sub_runs(text, chars) ==
    IF text = <<>> THEN <<>>
    ELSE IF Head(text) \in chars
    THEN IF Len(text) > 1 /\ text[2] \in chars
         THEN sub_runs(Tail(text), chars)
         ELSE <<" ">> \o sub_runs(Tail(text), chars)
    ELSE <<Head(text)>> \o sub_runs(Tail(text), chars)

\* text.split(" "): the pieces between single spaces, empty ones included
RECURSIVE split_on_space(_)
split_on_space(text) ==
    IF \E i \in 1..Len(text) : text[i] = " "
    THEN LET i == CHOOSE k \in 1..Len(text) :
                      text[k] = " " /\ \A j \in 1..(k - 1) : text[j] # " "
         IN <<SubSeq(text, 1, i - 1)>> \o split_on_space(SubSeq(text, i + 1, Len(text)))
    ELSE <<text>>

\* " ".join(parts)
RECURSIVE join(_)
join(parts) ==
    IF parts = <<>> THEN <<>>
    ELSE IF Len(parts) = 1 THEN parts[1]
    ELSE parts[1] \o <<" ">> \o join(Tail(parts))

\* the province "S" with its long form "Ss" ("s" stands for the suffix si)
PROVINCE_ALIASES == [t \in {<<"S">>, <<"S", "s">>} |-> <<"S">>]

_normalize_province_token(token) ==
    LET trimmed == IF token # <<>> /\ token[Len(token)] = "s"
                   THEN SubSeq(token, 1, Len(token) - 1) ELSE token
    IN IF token \in DOMAIN PROVINCE_ALIASES THEN PROVINCE_ALIASES[token]
       ELSE IF trimmed \in DOMAIN PROVINCE_ALIASES THEN PROVINCE_ALIASES[trimmed]
       ELSE IF trimmed # <<>> THEN trimmed ELSE token

\* (province, city); <<>> stands for None
_normalize_location(location) ==
    IF location.none \/ location.text = <<>> THEN [province |-> <<>>, city |-> <<>>]
    ELSE LET cleaned == strip(sub_runs(sub_runs(location.text, {",", "/"}), Whitespace))
             parts == split_on_space(cleaned)
         IN IF cleaned = <<>> THEN [province |-> <<>>, city |-> <<>>]
            ELSE [province |-> _normalize_province_token(parts[1]),
                  city |-> IF Len(parts) > 1 THEN join(Tail(parts)) ELSE <<>>]

Constraint(kind, text, age) == [kind |-> kind, text |-> text, age |-> age]

\* the conditions of the store filter, as a set
_build_filters(p) ==
    LET loc == _normalize_location(p.location)
    IN (IF loc.province # <<>> THEN {Constraint("region_province", loc.province, 0)} ELSE {})
       \cup (IF loc.city # <<>> THEN {Constraint("region_city", loc.city, 0)} ELSE {})

\* the condition _filter_by_age puts on a document: min_age is None or <= age
_filter_by_age(age) == IF age = 0 THEN {} ELSE {Constraint("min_age", <<>>, age)}

\* what enhanced_retrieve_node hands to retriever.invoke for a profile at a
\* filter level; called is FALSE when building it raised (location.split()[0]
\* of a text without a token: IndexError, caught by the node)
RetrieverInput(p, level) ==
    CASE level = 0 -> [called |-> TRUE, has_profile |-> TRUE, profile |-> p]
      [] level = 1 ->
            IF p.location.none \/ p.location.text = <<>>
            THEN [called |-> TRUE, has_profile |-> TRUE, profile |-> p]
            ELSE IF split(p.location.text) = <<>>
            THEN [called |-> FALSE]
            ELSE [called |-> TRUE, has_profile |-> TRUE,
                  profile |-> [p EXCEPT !.location =
                                  [none |-> FALSE, text |-> split(p.location.text)[1]]]]
      [] level = 2 ->
            [called |-> TRUE, has_profile |-> TRUE,
             profile |-> [age |-> p.age, gender |-> p.gender, location |-> NoLocation]]
      [] OTHER -> [called |-> TRUE, has_profile |-> FALSE]

\* the constraints JobsRetrieverPipeline.invoke applies for a payload
PipelineFilters(input) ==
    IF ~input.called \/ ~input.has_profile THEN {}
    ELSE _build_filters(input.profile) \cup _filter_by_age(input.profile.age)

LocationTexts ==
    {<<>>, <<" ">>, <<"S">>, <<"S", "s">>, <<"S", " ", "G">>, <<"S", "s", " ", " ", "G">>,
     <<"S", ",", "G">>, <<"S", "/", "G", " ", "D">>, <<" ", "S", ",", " ", "G">>}

JobsProfiles ==
    [age : {0, 65}, gender : {"male", "other"},
     location : {NoLocation} \cup {[none |-> FALSE, text |-> t] : t \in LocationTexts}]

FilterInit ==
    /\ pc = "retrieve"
    /\ on_non_patch \in {"raise", "skip"}
    /\ serp_api_key = TRUE
    /\ index_missing = FALSE
    /\ category = "jobs"
    /\ profile = "model"
    /\ query = <<"q">>
    /\ rewritten_query = <<>>
    /\ has_rewritten = FALSE
    /\ retry_count = 0
    /\ filter_level = 0
    /\ grade_decision = "unset"
    /\ documents = <<>>
    /\ web_documents = <<>>
    /\ search_quality = "unset"
    /\ avg_relevance_score = <<0, 1>>
    /\ answer = <<>>
    /\ sources = <<>>
    /\ error = "none"
    /\ http_status = 0
    /\ steps = 0
    /\ last_node = "none"
    /\ verdict = "none"
    /\ grade_llm = NotCalled
    /\ stage_a = FALSE
    /\ websearch_runs = 0
    /\ retrieval_trace = <<>>
    /\ port = "none"
    /\ web_trace = <<>>
    /\ only_empty = TRUE
    /\ scenario1 = TRUE
    /\ merge_input = <<>>
    /\ node_runs = [n \in Nodes |-> 0]
    /\ last_retrieve = <<-1, -1>>
    /\ has_avg = FALSE
    /\ messages = <<>>
    /\ OneRequestProcess
    /\ NoStoreHit
    /\ history = <<>>
    /\ retriever_input = [called |-> FALSE]
    /\ filters = {}
    /\ jobs_profile \in JobsProfiles

\* the part of enhanced_retrieve_node and of the retriever that builds the filter
BuildFilter ==
    /\ pc = "retrieve"
    /\ retriever_input' = RetrieverInput(jobs_profile, filter_level)
    /\ filters' = PipelineFilters(RetrieverInput(jobs_profile, filter_level))
    /\ pc' = IF filter_level < MAX_FILTER_LEVEL THEN "widen_filter" ELSE "filtered"
    /\ UNCHANGED <<cfgVars, reqVars, rewritten_query, has_rewritten, retry_count,
                   filter_level, grade_decision, retrVars, web_documents, outVars,
                   error, steps, last_node, gradeGhost, websearch_runs, traceVars, port,
                   scenVars, merge_input, runVars, procVars, storeVars, messages,
                   has_avg, history, jobs_profile>>

FilterNext == BuildFilter \/ WidenFilter

FilterSpec == FilterInit /\ [][FilterNext]_vars

----------------------------------------------------------------------------
(* Properties *)

\* the graded documents fail the threshold check, stated on the documents
\* themselves: the list is empty or every score (a missing one is 0) is below
NoneRelevant ==
    \A i \in 1..Len(documents) :
        (IF documents[i].has_score THEN documents[i].relevance_score ELSE 0)
            < min_relevance_threshold[category]

\* the completion has y, e, s in a row, in either case
SaysYes(content) ==
    \E i \in 1..(Len(content) - 2) :
        /\ content[i] \in {"y", "Y"}
        /\ content[i + 1] \in {"e", "E"}
        /\ content[i + 2] \in {"s", "S"}

JustGraded == last_node = "grade"

\* longest run: three rewrite cycles of rewrite + 4 retrieve + 4 grade + 3 widen_filter,
\* two increment_retry between them, then websearch and generate
MaxNodeExecutions ==
    (MAX_RETRIES + 1) * (1 + 2 * (MAX_FILTER_LEVEL + 1) + MAX_FILTER_LEVEL) + MAX_RETRIES + 2

\* C1: every traversal that starts at rewrite eventually reaches END.
C1_ReachesEnd == (pc = "rewrite") ~> (pc = "END")

C3_Bounds == filter_level \in 0..3 /\ retry_count \in 0..2

C3_Witness == filter_level = 3 /\ retry_count = 2 /\ last_node = "widen_filter"

\* C4: a step changes retry_count only by running increment_retry, which adds
\* exactly 1 and sets filter_level to 0; a step that lowers filter_level is
\* such a step.
C4_ResetWithRetry ==
    [][/\ (retry_count' # retry_count =>
              /\ pc = "increment_retry"
              /\ retry_count' = retry_count + 1
              /\ filter_level' = 0)
       /\ (filter_level' < filter_level => retry_count' = retry_count + 1)]_vars

C4_Witness ==
    last_node = "increment_retry" /\ pc = "rewrite" /\ retry_count = 2 /\ filter_level = 0

\* C5: when grade_node returns "yes" the next node to run is generate.
C5_AcceptGoesToGenerate ==
    [][(pc = "grade" /\ verdict' = "yes") => pc' = "generate"]_vars

\* C6: when grade_node returns "no" the next node is widen_filter if
\* filter_level < 3, increment_retry if filter_level = 3 and retry_count < 2,
\* websearch if filter_level = 3 and retry_count = 2; widen_filter adds 1 to
\* filter_level, keeps retry_count and goes to retrieve; increment_retry goes
\* to rewrite.
C6_RejectLadder ==
    [][/\ (pc = "grade" /\ verdict' = "no" =>
              \/ filter_level < 3 /\ pc' = "widen_filter"
              \/ filter_level = 3 /\ retry_count < 2 /\ pc' = "increment_retry"
              \/ filter_level = 3 /\ retry_count = 2 /\ pc' = "websearch")
       /\ (pc = "widen_filter" =>
              /\ filter_level' = filter_level + 1
              /\ retry_count' = retry_count
              /\ pc' = "retrieve")
       /\ (pc = "increment_retry" => pc' = "rewrite")]_vars

C8_StageAAuthority ==
    JustGraded /\ NoneRelevant => verdict = "no" /\ grade_llm = NotCalled

C8_Witness ==
    /\ JustGraded
    /\ Len(documents) = 2
    /\ ~documents[1].has_score
    /\ documents[2].relevance_score = 24
    /\ verdict = "no"

\* C9: when a document is at the threshold and building or calling the LLM
\* fails, grade_node returns "yes" and no exception leaves the node.
C9_FailureAccepts ==
    JustGraded /\ ~NoneRelevant /\ grade_llm.kind \in {"construct_error", "invoke_error"}
        => verdict = "yes" /\ error # "NodeError"

C9_Witness ==
    JustGraded /\ ~NoneRelevant /\ grade_llm.kind = "invoke_error" /\ verdict = "yes"

\* C10 as stated: when a document is at the threshold and the completion does
\* not contain "yes", grade_node returns "yes".
C10_OtherOutputAccepts ==
    JustGraded /\ ~NoneRelevant /\ grade_llm.kind = "ok" /\ ~SaysYes(grade_llm.content)
        => verdict = "yes"

\* C10 amended: when a document is at the threshold and the LLM answers,
\* grade_node returns "yes" if the completion contains "yes" in any case and
\* "no" otherwise.
C10_OtherOutputRejects ==
    JustGraded /\ ~NoneRelevant /\ grade_llm.kind = "ok"
        => (verdict = "yes" <=> SaysYes(grade_llm.content))
           /\ (verdict = "no" <=> ~SaysYes(grade_llm.content))

C10_Witness ==
    /\ JustGraded
    /\ ~NoneRelevant
    /\ grade_llm = [kind |-> "ok", content |-> <<"N", "o">>]
    /\ verdict = "no"

LLMFailed == port \in {"construct_error", "invoke_error"}

\* C11: when building or calling the LLM fails in rewrite_node, rewritten_query
\* is the original query, no exception leaves the node and retrieve runs next,
\* on the first rewrite and on the rewrites after increment_retry.
C11_RewriteFallsBack ==
    last_node = "rewrite" /\ LLMFailed
        => rewritten_query = query /\ pc = "retrieve" /\ error = "none"

C11_Witness ==
    /\ last_node = "rewrite"
    /\ port = "invoke_error"
    /\ retry_count = 2
    /\ query # <<>>
    /\ rewritten_query = query
    /\ pc = "retrieve"

\* C12: when building or calling the LLM fails in generate_node, the answer is
\* the fixed apology, sources is empty, no exception leaves the node and the
\* run is at END (or has returned from there), whatever the documents are.
C12_GenerateApologises ==
    last_node = "generate" /\ LLMFailed
        => /\ answer = Apology
           /\ sources = <<>>
           /\ pc \in {"END", "done"}
           /\ error = "none"

C12_Witness ==
    /\ last_node = "generate"
    /\ port = "construct_error"
    /\ documents # <<>>
    /\ web_documents # <<>>
    /\ answer = Apology
    /\ sources = <<>>
    /\ pc = "END"

\* C13: when the search credential is missing, the query is empty or the
\* search raises, the patch websearch_node returns has web_documents = [] and
\* the trace it read plus exactly one entry recording the skip or the error;
\* no other state field changes, no exception leaves the node, generate is next.
C13_WebsearchDegrades ==
    [][(pc = "websearch" /\ port' \in {"missing_serp_api_key", "empty_query", "raise"})
        => /\ web_documents' = <<>>
           /\ Len(web_trace') = Len(retrieval_trace) + 1
           /\ SubSeq(web_trace', 1, Len(retrieval_trace)) = retrieval_trace
           /\ web_trace'[Len(web_trace')].type =
                  (IF port' = "raise" THEN "web_search_error" ELSE "web_search_skipped")
           /\ (port' # "raise" => web_trace'[Len(web_trace')].reason = port')
           /\ UNCHANGED <<category, query, profile, rewritten_query, retry_count,
                          filter_level, grade_decision, documents, search_quality,
                          avg_relevance_score, answer, sources>>
           /\ pc' = "generate"
           /\ error' = "none"]_vars

C13_Witness ==
    /\ last_node = "websearch"
    /\ port = "raise"
    /\ serp_api_key
    /\ web_documents = <<>>
    /\ Len(web_trace) = 1
    /\ web_trace[1].type = "web_search_error"
    /\ pc = "generate"

\* C14: right after dispatch has taken a request, before any node has run, a
\* request of an unregistered category has failed with the category error, and
\* a request of a registered category, with or without profile, is at rewrite.
C14_OnlyCategoryAbortsEarly ==
    pc # "idle" /\ steps = 0
        => IF category \in Registered
           THEN pc = "rewrite" /\ error = "none"
           ELSE pc \in {"failed", "done"} /\ error = "ValueError"

\* C15 as stated: when the category's index cannot be loaded the request is
\* rejected before any node runs.
C15_MissingIndexRejectedEarly == index_missing => steps = 0

\* C15 amended: a missing index is found only inside retrieve, where the
\* failure to load it is caught: the node returns no documents with
\* search_quality "low", raises nothing, and grade runs next.
C15_MissingIndexDegrades ==
    /\ (index_missing /\ last_node = "retrieve"
           => /\ port \in {"load_error", "not_called"}
              /\ documents = <<>>
              /\ search_quality = "low"
              /\ pc = "grade"
              /\ error = "none")
    /\ (port = "load_error" => index_missing /\ steps >= 2)

C15_Witness ==
    /\ index_missing
    /\ last_node = "retrieve"
    /\ port = "load_error"
    /\ filter_level = 1
    /\ documents = <<>>
    /\ pc = "grade"

\* C16: a request of a registered category always ends with a response that
\* carries an answer (HTTP 200), never with an exception, whatever the LLM,
\* the retriever and the web search do.
C16_AlwaysAnswers ==
    pc = "done" /\ category \in Registered => http_status = 200 /\ error = "none"

\* C17: scenario 1: with a profile, the retriever returning nothing at filter
\* levels 0..2 and relevant documents at level 3 that the LLM confirms, the
\* request ends after rewrite, 4 retrieve, 4 grade, 3 widen_filter and
\* generate (13 nodes) with filter_level = 3, retry_count = 0, no websearch.
C17_Scenario1 ==
    scenario1 /\ profile # "none" /\ category \in Registered /\ pc = "done"
        => /\ http_status = 200
           /\ steps = 13
           /\ last_node = "generate"
           /\ filter_level = 3
           /\ retry_count = 0
           /\ websearch_runs = 0

\* C18: scenario 2: when every retriever call returns no documents, the
\* request ends after all 12 (retry_count, filter_level) pairs were rejected
\* and websearch and generate ran (40 nodes), with filter_level = 3 and
\* retry_count = 2.
C18_Scenario2 ==
    only_empty /\ profile = "none" /\ category \in Registered /\ pc = "done"
        => /\ http_status = 200
           /\ steps = MaxNodeExecutions
           /\ last_node = "generate"
           /\ websearch_runs = 1
           /\ filter_level = 3
           /\ retry_count = 2

\* what follows a node, from the node, the two counters and the verdict alone
ControlAfter(node, fl, rc, v, lib) ==
    CASE node = "rewrite" -> <<"retrieve", fl, rc>>
      [] node = "retrieve" -> <<"grade", fl, rc>>
      [] node = "grade" ->
            IF v = "raise" \/ lib = "raise" THEN <<"failed", fl, rc>>
            ELSE IF fl < 3 THEN <<"widen_filter", fl, rc>>
            ELSE IF rc < 2 THEN <<"increment_retry", fl, rc>>
            ELSE <<"websearch", fl, rc>>
      [] node = "widen_filter" -> <<"retrieve", IF fl < 3 THEN fl + 1 ELSE 3, rc>>
      [] node = "increment_retry" -> <<"rewrite", 0, rc + 1>>
      [] node = "websearch" -> <<"generate", fl, rc>>
      [] node = "generate" -> <<"END", fl, rc>>

\* C19: the node that runs next and the next (filter_level, retry_count) are a
\* function of the node that ran, the two counters and the verdict of that
\* step, so two runs with the same verdicts go through the same nodes and the
\* same counter values whatever the queries, documents, scores and port outputs.
C19_Deterministic ==
    [][(pc \in Nodes)
        => (<<pc', filter_level', retry_count'>>
               = ControlAfter(pc, filter_level, retry_count, verdict', on_non_patch))]_vars

C19_Witness ==
    /\ pc = "END"
    /\ steps = MaxNodeExecutions
    /\ documents # <<>>
    /\ web_documents = <<>>
    /\ verdict = "yes"

\* the positions of a list that hold the first document of their fingerprint:
\* the first 100 characters of the content, stripped
FirstOfFingerprint(all) ==
    {i \in 1..Len(all) :
        \A j \in 1..(i - 1) :
            strip(SubSeq(all[j].page_content, 1, Min(100, Len(all[j].page_content))))
                # strip(SubSeq(all[i].page_content, 1, Min(100, Len(all[i].page_content))))}

\* the documents at those positions, in the order of the list
KeptInOrder(all) ==
    [k \in 1..Cardinality(FirstOfFingerprint(all)) |->
        all[CHOOSE i \in FirstOfFingerprint(all) :
                Cardinality({j \in FirstOfFingerprint(all) : j <= i}) = k]]

\* C20: merge_node returns the internal documents followed by the web
\* documents, keeping of each fingerprint only the first document, in the
\* order of that list and unaltered.
C20_MergeKeepsFirst ==
    [][(pc = "merge") => (documents' = KeptInOrder(documents \o web_documents))]_vars

C20_Witness ==
    /\ pc = "merged"
    /\ Len(merge_input) = 2
    /\ Len(merge_input[1].page_content) > 100
    /\ Len(merge_input[2].page_content) > 100
    /\ merge_input[1].page_content # merge_input[2].page_content
    /\ SubSeq(merge_input[1].page_content, 1, 100) = SubSeq(merge_input[2].page_content, 1, 100)
    /\ merge_input[1].metadata # merge_input[2].metadata
    /\ web_documents = <<merge_input[2]>>
    /\ documents = <<merge_input[1]>>

\* C21: deduplicating a list concatenated with itself gives what deduplicating
\* the list gives, deduplicating a deduplicated list changes nothing, and a
\* second run of merge_node leaves documents as the first run left them.
C21_DedupIdempotent ==
    [][(pc \in {"merge", "merged"})
        => (LET L == documents \o web_documents
            IN /\ _deduplicate_docs(L \o L) = _deduplicate_docs(L)
               /\ _deduplicate_docs(_deduplicate_docs(L)) = _deduplicate_docs(L)
               /\ _deduplicate_docs(documents \o documents) = _deduplicate_docs(documents)
               /\ (pc = "merged" => documents' = documents))]_vars

C21_Witness ==
    /\ pc = "merged_twice"
    /\ Len(documents) = 2
    /\ web_documents # <<>>
    /\ Len(merge_input) > Len(documents)

\* C22: the quality is "high" iff there are at least 5 documents and the
\* average score is at least 0.7, else "medium" iff there are at least 3 and
\* the average is at least the threshold, else "low"; the average is the mean
\* of the scores, a missing score counting 0, and 0 for no documents.
C22_QualityBuckets ==
    pc = "assessed"
        => LET count == Len(documents)
               n == avg_relevance_score[1]
               d == avg_relevance_score[2]
               thr == min_relevance_threshold[category]
           IN /\ d > 0
              /\ n * (IF count = 0 THEN 1 ELSE count) = d * SumScores(documents)
              /\ (search_quality = "high" <=> (count >= 5 /\ n >= 70 * d))
              /\ (search_quality = "medium" <=>
                     (~(count >= 5 /\ n >= 70 * d) /\ count >= 3 /\ n >= thr * d))
              /\ (search_quality = "low" <=>
                     (~(count >= 5 /\ n >= 70 * d) /\ ~(count >= 3 /\ n >= thr * d)))
              /\ (count = 5 /\ n = 70 * d => search_quality = "high")
              /\ (count = 4 /\ n = 70 * d => search_quality = "medium")
              /\ (count = 0 => search_quality = "low" /\ n = 0)

C22_Witness ==
    /\ pc = "assessed"
    /\ Len(documents) = 5
    /\ avg_relevance_score = <<70, 1>>
    /\ search_quality = "high"
    /\ \E i \in 1..5 : documents[i].relevance_score = 69

C27_WelfareCollapses ==
    category = "welfare"
        => /\ node_runs["widen_filter"] = 0
           /\ pc # "widen_filter"
           /\ node_runs["retrieve"] <= retry_count + 1
           /\ (JustGraded /\ verdict = "yes" => pc = "generate")
           /\ (JustGraded /\ verdict = "no"
                  => pc \in {"increment_retry", "rewrite", "websearch"})

\* C28: no run reaches the step ceiling of 50: the count of executed nodes
\* stays below it and the run is never ended by the ceiling.
C28_CeilingNeverReached ==
    steps < RecursionLimit /\ error # "GraphRecursionError"

C28_Witness ==
    /\ pc = "done"
    /\ http_status = 200
    /\ steps = MaxNodeExecutions
    /\ node_runs["retrieve"] = 12

\* C29: after grade has run and returned a verdict, grade_decision in the
\* state is that verdict.
C29_DecisionIsVerdict ==
    JustGraded /\ verdict \in {"yes", "no"} => grade_decision = verdict

LexLess(a, b) == a[1] < b[1] \/ (a[1] = b[1] /\ a[2] < b[2])

\* C30: retrieve runs at most 12 times, each time with a (retry_count,
\* filter_level) pair lexicographically above the one of the retrieve before;
\* websearch runs at most once, and a run that has ended has run generate
\* exactly once.
C30_LoopBudget ==
    [][/\ node_runs'["retrieve"] <= (MAX_RETRIES + 1) * (MAX_FILTER_LEVEL + 1)
       /\ node_runs'["grade"] <= node_runs'["retrieve"]
       /\ (pc = "retrieve" /\ pc' # pc
              => LexLess(last_retrieve, <<retry_count, filter_level>>))
       /\ node_runs'["websearch"] <= 1
       /\ node_runs'["generate"] <= 1
       /\ (pc' = "done" /\ steps' > 0 => node_runs'["generate"] = 1)]_vars

\* C26: every document a retriever returns has a relevance_score between 0
\* and 1 (0 and 100 hundredths), whatever the store returned for the hit.
C26_ScoreClamped ==
    pc = "scored"
        => \A i \in 1..Len(documents) :
               /\ documents[i].has_score
               /\ documents[i].relevance_score >= 0
               /\ documents[i].relevance_score <= 100

\* the states one step of a request running alone can lead to
AloneNext(s) ==
    IF s.pc \notin Nodes THEN {}
    ELSE {SessionAfter(s, on_non_patch, o, r, w) :
              o \in ConcLLMOutcomes, r \in ConcRetrieverOutcomes, w \in {"ok", "raise"}}

C25_PortsCreatedOnce ==
    /\ llm_instances <= 1
    /\ \A c \in Registered : retriever_instances[c] <= 1


\* C32: after every RETRIEVE execution that leaves documents empty, the session's
\* avg_relevance_score is 0 and search_quality is low; no earlier value survives
C32_EmptyRetrievalResetsScore ==
    last_node = "retrieve" /\ documents = <<>> =>
        /\ has_avg
        /\ avg_relevance_score = <<0, 1>>
        /\ search_quality = "low"

\* C33: a retriever failure during RETRIEVE leaves the node without an
\* exception and with no documents, and a request whose retriever always fails
\* still runs WEBSEARCH and GENERATE and ends with a response
C33_FailingRetrieverReachesWeb ==
    /\ (last_node = "retrieve" /\ port \in {"load_error", "invoke_error"}
           => documents = <<>> /\ error = "none" /\ pc = "grade")
    /\ (index_missing /\ pc = "done" /\ steps > 0
           => /\ node_runs["websearch"] = 1
              /\ last_node = "generate"
              /\ http_status = 200)

\* C34: documents is written only by RETRIEVE: every other step of a request
\* (dispatch, rewrite, grade, widen_filter, increment_retry, websearch, generate
\* and the return) leaves it as the last retrieval set it
C34_OnlyRetrieveWritesDocuments ==
    [][(pc # "retrieve") => (documents' = documents)]_vars

C34_Witness ==
    /\ pc = "END"
    /\ retry_count = MAX_RETRIES
    /\ filter_level = MAX_FILTER_LEVEL
    /\ node_runs["websearch"] = 1
    /\ web_documents # <<>>
    /\ Len(documents) = MaxDocs

\* the edge as a function of the three routing fields alone
EdgeOf == [d \in {"yes", "no", "unset"}, fl \in 0..MAX_FILTER_LEVEL, rc \in 0..MAX_RETRIES |->
              IF d = "yes" THEN "generate"
              ELSE IF fl < MAX_FILTER_LEVEL THEN "widen_filter"
              ELSE IF rc < MAX_RETRIES THEN "increment_retry"
              ELSE "websearch"]

RecentTurns(h, k) == SubSeq(h, IF Len(h) > k THEN Len(h) - k + 1 ELSE 1, Len(h))

\* C36: for a request carrying history h the rewriter sends the system prompt,
\* the most recent min(|h|, 6) turns of h in their order, then the question
C36_RewriterSeesRecentHistory ==
    last_node = "rewrite" /\ port \in {"ok", "invoke_error"}
        => messages = <<[role |-> "system", content |-> <<"rewrite_system_prompt">>]>>
                      \o RecentTurns(history, 6)
                      \o <<[role |-> "user", content |-> query]>>

\* the first 100 characters of a document's content; a web document carries
\* the text of the search result
EvidenceFingerprint(doc) ==
    IF "page_content" \in DOMAIN doc THEN Fingerprint(doc) ELSE <<"w", "e", "b">>

\* C35: the evidence the answer generator renders and cites is deduplicated:
\* internal documents before web documents, and no two of its documents share
\* the content fingerprint
C35_EvidenceDeduplicated ==
    last_node = "generate" =>
        LET evidence == documents \o web_documents
        IN /\ \A i, j \in 1..Len(evidence) :
                  i < j => EvidenceFingerprint(evidence[i]) # EvidenceFingerprint(evidence[j])
           /\ \A i, j \in 1..Len(sources) :
                  i < j => EvidenceFingerprint(sources[i]) # EvidenceFingerprint(sources[j])
           /\ \A i, j \in 1..Len(evidence) :
                  evidence[i].origin = "web_search" /\ evidence[j].origin # "web_search"
                      => j < i

\* C39: at END the answer is the LLM's trimmed text or the apology, sources are
\* the first min(5, n) documents of internal-then-web order and are empty with
\* the apology, and web_documents is non-empty only after a successful
\* WEBSEARCH, holding its single web document
C39_EndState ==
    pc = "END" =>
        LET evidence == documents \o web_documents
        IN /\ answer \in {strip(c) : c \in AnswerCompletions} \cup {Apology}
           /\ Len(sources) <= 5
           /\ sources \in {<<>>, SubSeq(evidence, 1, Min(5, Len(evidence)))}
           /\ (answer # Apology => sources = SubSeq(evidence, 1, Min(5, Len(evidence))))
           /\ (answer = Apology => sources = <<>>)
           /\ (web_documents # <<>>
                  => /\ node_runs["websearch"] = 1
                     /\ web_trace[Len(web_trace)].type = "web_search"
                     /\ Len(web_documents) = 1
                     /\ web_documents[1].origin = "web_search")

C39_Witness ==
    /\ pc = "END"
    /\ Len(documents) = 5
    /\ Len(web_documents) = 1
    /\ Len(sources) = 5
    /\ sources = documents
    /\ answer = <<"a">>

\* the constraints of the full profile
FullFilters == PipelineFilters([called |-> TRUE, has_profile |-> TRUE, profile |-> jobs_profile])

\* the constraints each level is to apply: all; all but the city; age; none
LevelFilters(level) ==
    CASE level = 0 -> FullFilters
      [] level = 1 -> {c \in FullFilters : c.kind # "region_city"}
      [] level = 2 -> {c \in FullFilters : c.kind = "min_age"}
      [] OTHER -> {}

\* C31: the filter handed to the retriever is a function of filter_level and
\* the profile (0: full profile; 1: coarse location and age; 2: age; 3: none),
\* and the constraints of a level are a subset of those of the level before
C31_FilterPerLevel ==
    [][(pc = "retrieve" /\ pc' # pc)
          => /\ retriever_input'.called
             /\ filters' = LevelFilters(filter_level)
             /\ (filter_level > 0 => filters' \subseteq filters)]_vars

====
